---- MODULE Spec2Model ----
(***************************************************************************)
(* Robus core: module registry, dispatch of completed messages, the       *)
(* byte-wise reception path and the half-duplex transmit discipline.      *)
(*                                                                         *)
(* Two builds of the same sources are modelled:                            *)
(*   Spec     the cfg(test) host build: Core::send stamps the source and   *)
(*            loops every byte of the message back through Core::receive;  *)
(*            no TX_LOCK, no timer, no driver (physical::soft).            *)
(*   SpecArm  the cfg(target_arch = "arm") build: Core::send runs in the   *)
(*            main context, step by step, and is interleaved with the      *)
(*            USART1 reception interrupt and the TIM7 timeout interrupt.   *)
(***************************************************************************)
EXTENDS Integers, Sequences, FiniteSets, TLC

VARIABLES
    REGISTRY,    \* robus_core.rs REGISTRY: the Vec<Module>, in insertion order
    recv_buf,    \* the reception buffer of recv_buf (bytes pushed so far)
    TX_LOCK,     \* robus_core.rs TX_LOCK (arm build only)
    alive,       \* FALSE once a panic has aborted the program
    pc,          \* position of the main context inside Core::send (arm build)
    cur,         \* the Core::send call in progress: <<>> or <<[mod_id, arg, msg]>>
    txq,         \* bytes of msg.to_bytes() physical::send has not pushed yet
    sink,        \* bytes written to USART1.tdr by the current / last physical::send
    direction,   \* DE / RE pins of the transceiver: "Receive" or "Transmit"
    cen,         \* TIM7 counter enabled
    cnt,         \* TIM7 counter, in ticks
    idle,        \* ticks since the last byte was received, up to one period
    line,        \* bytes of the frame a remote node is putting on the bus, not yet arrived
    rx_frame,    \* <<m>> while the frame of m, begun by a remote node after a whole
                 \* frame or after a silence, has lost no byte and met no timeout;
                 \* <<>> otherwise
    recovered,   \* the last timeout discarded a frame whose header was complete
    cut,         \* a remote frame was cut short (aborted, or bytes of it missed) and
                 \* the bus has not yet been silent for one timeout period
    last,        \* the last call or interrupt that ran, with its arguments and result
    completed,   \* messages recv_buf::get_message returned during the last step
    calls,       \* callback invocations of the last step, in order
    isr,         \* position of a reception callback that has called Core::send
                 \* inside the USART1 interrupt; "none" when there is none
    MSG,         \* msg_channel.rs MSG: <<>> for None, <<m>> for Some(m)
    q_log,       \* the Tx::send and Rx::recv calls made so far, with what recv returned
    rx           \* the Rx::recv call in progress: its position and the clone it holds

core_vars == <<REGISTRY, recv_buf, TX_LOCK, alive, pc, cur, txq, sink, direction,
               cen, cnt, idle, line, rx_frame, recovered, cut, last, completed, calls,
               isr>>

queue_vars == <<MSG, q_log, rx>>

vars == <<core_vars, queue_vars>>

--------------------------------------------------------------------------
\* Bounds of the model.

\* Largest number of modules created.
MaxModules == 2

\* Largest payload, in bytes, of the messages sent and received.
MaxData == 2

\* Largest number of modules created in the arm build.
ArmMaxModules == 1

\* TIM7 auto-reload value (one timeout period), in ticks of the model.
TimerPeriod == 2

\* Largest number of Tx::send and Rx::recv calls on the message queue.
MaxOps == 4

--------------------------------------------------------------------------
\* Values.

\* Bus id of a module that set_module_id has not been called on.
UNSET_ID == 0

\* Size of the serialized header: target_mode 1, target 2, source 2, command 1, size 1.
HEADER_SIZE == 7

BusIds == {1, 257}
ModuleTypes == {"Sniffer", "Ledstrip"}
\* A payload of n bytes.
Payload(n) == [i \in 1..n |-> 3]

Aliases == <<"m1", "m2", "m3", "m4">>
Callbacks == <<"cb1", "cb2", "cb3", "cb4">>

Message(mode, target, source, command, data) ==
    [target_mode |-> mode, target |-> target, source |-> source,
     command |-> command, data |-> data]

\* Target mode and target of the messages sent and received.
Headers ==
    {<<"Broadcast", 1>>, <<"Id", 1>>, <<"Id", 257>>, <<"Type", 257>>, <<"Group", 1>>}

\* Messages a caller hands to Core::send: every header, without payload and with
\* the largest one; the command and the source the caller wrote differ with it.
SendMsgs ==
    {Message(h[1], h[2],
             IF n = 0 THEN 257 ELSE 2,
             IF n = 0 THEN 0 ELSE 2,
             Payload(n)) : h \in Headers, n \in {0, MaxData}}

Module_new(alias, mod_type, cb) ==
    [alias |-> alias, mod_type |-> mod_type, id |-> UNSET_ID, callback |-> cb]

--------------------------------------------------------------------------
\* Wire format (msg.rs) and frame assembler (recv_buf.rs).

TargetModeCode(mode) ==
    CASE mode = "Broadcast" -> 0
      [] mode = "Id"        -> 1
      [] mode = "Type"      -> 2
      [] mode = "Group"     -> 3

TargetModeOfCode(b) ==
    CASE b = 0 -> "Broadcast"
      [] b = 1 -> "Id"
      [] b = 2 -> "Type"
      [] b = 3 -> "Group"

to_bytes(msg) ==
    <<TargetModeCode(msg.target_mode),
      msg.target % 256, msg.target \div 256,
      msg.source % 256, msg.source \div 256,
      msg.command,
      Len(msg.data)>> \o msg.data

from_bytes(bytes) ==
    Message(TargetModeOfCode(bytes[1]),
            bytes[2] + 256 * bytes[3],
            bytes[4] + 256 * bytes[5],
            bytes[6],
            SubSeq(bytes, HEADER_SIZE + 1, Len(bytes)))

recv_buf_push(buf, byte) == Append(buf, byte)

\* Some(msg) as <<msg>> and None as <<>>, with the buffer left behind.
recv_buf_get_message(buf) ==
    IF Len(buf) >= HEADER_SIZE /\ Len(buf) = HEADER_SIZE + buf[HEADER_SIZE]
    THEN [msg |-> <<from_bytes(buf)>>, buf |-> <<>>]
    ELSE [msg |-> <<>>, buf |-> buf]

recv_buf_flush(buf) == <<>>

--------------------------------------------------------------------------
\* Core::receive: the dispatch of a completed message.

\* matches with && for || in the Id arm.
matches_and(module, msg) ==
    CASE msg.target_mode = "Broadcast" -> TRUE
      [] msg.target_mode = "Id" ->
            module.id = msg.target /\ module.mod_type = "Sniffer"
      [] OTHER -> FALSE

\* matches without the Sniffer clause of the Id arm.
matches_id_only(module, msg) ==
    CASE msg.target_mode = "Broadcast" -> TRUE
      [] msg.target_mode = "Id" -> module.id = msg.target
      [] OTHER -> FALSE

\* matches that handles every other target mode as it handles Id.
matches_by_target(module, msg) ==
    CASE msg.target_mode = "Broadcast" -> TRUE
      [] OTHER -> module.id = msg.target \/ module.mod_type = "Sniffer"

\* The match on msg.header.target_mode: does the module receive msg?
matches(module, msg) ==
    CASE msg.target_mode = "Broadcast" -> TRUE
      [] msg.target_mode = "Id" ->
            module.id = msg.target \/ module.mod_type = "Sniffer"
      [] OTHER -> FALSE

\* dispatch that stops at the first matching module (find for filter).
dispatch_first(reg, msg, i) ==
    LET found == {j \in i..Len(reg) : matches(reg[j], msg)}
    IN  IF found = {} THEN <<>>
        ELSE LET j == CHOOSE k \in found : \A l \in found : k <= l
             IN  <<[module |-> j - 1, callback |-> reg[j].callback, msg |-> msg]>>

\* dispatch that runs the matching callbacks from the last module to the first.
RECURSIVE dispatch_reverse(_, _, _)
dispatch_reverse(reg, msg, i) ==
    IF i > Len(reg) THEN <<>>
    ELSE dispatch_reverse(reg, msg, i + 1) \o
         (IF matches(reg[i], msg)
          THEN <<[module |-> i - 1, callback |-> reg[i].callback, msg |-> msg]>>
          ELSE <<>>)

\* The callbacks invoked for msg, in registry order, each with a clone of msg.
RECURSIVE dispatch(_, _, _)
dispatch(reg, msg, i) ==
    IF i > Len(reg) THEN <<>>
    ELSE (IF matches(reg[i], msg)
          THEN <<[module |-> i - 1, callback |-> reg[i].callback, msg |-> msg]>>
          ELSE <<>>) \o dispatch(reg, msg, i + 1)

\* receive that asks for the message before it pushes the byte.
receive_get_first(reg, buf, byte) ==
    LET got == recv_buf_get_message(buf)
    IN  [buf |-> recv_buf_push(got.buf, byte),
         completed |-> got.msg,
         calls |-> IF got.msg = <<>> THEN <<>> ELSE dispatch(reg, got.msg[1], 1)]

\* Core::receive(byte) on registry reg and buffer buf.
receive(reg, buf, byte) ==
    LET got == recv_buf_get_message(recv_buf_push(buf, byte))
    IN  [buf |-> got.buf,
         completed |-> got.msg,
         calls |-> IF got.msg = <<>> THEN <<>> ELSE dispatch(reg, got.msg[1], 1)]

\* The cfg(test) local loop of Core::send: receive() on each byte in turn.
\* at is the list of byte positions on which a message completed.
RECURSIVE local_loop(_, _, _, _)
local_loop(reg, st, bytes, k) ==
    IF k > Len(bytes) THEN st
    ELSE LET r == receive(reg, st.buf, bytes[k])
         IN  local_loop(reg,
                        [buf |-> r.buf,
                         completed |-> st.completed \o r.completed,
                         calls |-> st.calls \o r.calls,
                         at |-> IF r.completed = <<>> THEN st.at ELSE Append(st.at, k)],
                        bytes, k + 1)

--------------------------------------------------------------------------
NoCall == [op |-> "none", mod_id |-> -1, robus_id |-> -1, ret |-> -1,
           arg |-> <<>>, msg |-> <<>>, panic |-> FALSE, at |-> <<>>]

Init ==
    /\ REGISTRY = <<>>
    /\ recv_buf = <<>>
    /\ TX_LOCK = FALSE
    /\ alive = TRUE
    /\ pc = "main"
    /\ cur = <<>>
    /\ txq = <<>>
    /\ sink = <<>>
    /\ direction = "Receive"
    /\ cen = FALSE
    /\ cnt = 0
    /\ idle = TimerPeriod
    /\ line = <<>>
    /\ rx_frame = <<>>
    /\ recovered = FALSE
    /\ cut = FALSE
    /\ last = NoCall
    /\ completed = <<>>
    /\ calls = <<>>
    /\ isr = "none"
    /\ MSG = <<>>
    /\ q_log = <<>>
    /\ rx = [pc |-> "idle", msg |-> <<>>]

bus_vars == <<TX_LOCK, pc, cur, txq, sink, direction, cen, cnt, line, rx_frame,
              recovered, cut>>

\* reg_push that inserts at the front.
reg_push_front(reg, module) == <<module>> \o reg

\* reg.push(module)
reg_push(reg, module) == Append(reg, module)

\* reg[mod_id]: the index is in bounds
in_bounds(reg, mod_id) == mod_id < Len(reg)

\* stamp that leaves the caller's source.
stamp_none(msg, module) == msg

\* msg.header.source = module.id
stamp(msg, module) == [msg EXCEPT !.source = module.id]

\* Core::new() called again: REGISTRY = Some(Vec::new()), and it returns.
Core_new ==
    /\ alive /\ pc = "main"
    /\ REGISTRY' = <<>>
    /\ last' = [NoCall EXCEPT !.op = "new"]
    /\ completed' = <<>>
    /\ calls' = <<>>
    /\ UNCHANGED <<recv_buf, alive, bus_vars>>
    /\ UNCHANGED <<idle, isr, queue_vars>>

\* Core::create_module(alias, mod_type, cb)
create_module(alias, mod_type, cb) ==
    /\ alive /\ pc = "main"
    /\ REGISTRY' = reg_push(REGISTRY, Module_new(alias, mod_type, cb))
    /\ last' = [NoCall EXCEPT !.op = "create_module", !.ret = Len(REGISTRY') - 1]
    /\ completed' = <<>>
    /\ calls' = <<>>
    /\ UNCHANGED <<recv_buf, alive, bus_vars>>
    /\ UNCHANGED <<idle, isr, queue_vars>>

\* set_module_id that refuses an id another module has already.
set_module_id_unique(mod_id, robus_id) ==
    /\ alive /\ pc = "main"
    /\ IF in_bounds(REGISTRY, mod_id)
       THEN /\ REGISTRY' = IF \E j \in DOMAIN REGISTRY :
                                  j # mod_id + 1 /\ REGISTRY[j].id = robus_id
                           THEN REGISTRY
                           ELSE [REGISTRY EXCEPT ![mod_id + 1].id = robus_id]
            /\ last' = [NoCall EXCEPT !.op = "set_module_id", !.mod_id = mod_id,
                                      !.robus_id = robus_id]
            /\ alive' = alive
       ELSE /\ REGISTRY' = REGISTRY
            /\ last' = [NoCall EXCEPT !.op = "set_module_id", !.mod_id = mod_id,
                                      !.robus_id = robus_id, !.panic = TRUE]
            /\ alive' = FALSE
    /\ completed' = <<>>
    /\ calls' = <<>>
    /\ UNCHANGED <<recv_buf, bus_vars>>
    /\ UNCHANGED <<idle, isr, queue_vars>>

\* Core::set_module_id(mod_id, robus_id): reg[mod_id].id = robus_id
set_module_id(mod_id, robus_id) ==
    /\ alive /\ pc = "main"
    /\ IF in_bounds(REGISTRY, mod_id)
       THEN /\ REGISTRY' = [REGISTRY EXCEPT ![mod_id + 1].id = robus_id]
            /\ last' = [NoCall EXCEPT !.op = "set_module_id", !.mod_id = mod_id,
                                      !.robus_id = robus_id]
            /\ alive' = alive
       ELSE \* index out of bounds: panic
            /\ REGISTRY' = REGISTRY
            /\ last' = [NoCall EXCEPT !.op = "set_module_id", !.mod_id = mod_id,
                                      !.robus_id = robus_id, !.panic = TRUE]
            /\ alive' = FALSE
    /\ completed' = <<>>
    /\ calls' = <<>>
    /\ UNCHANGED <<recv_buf, bus_vars>>
    /\ UNCHANGED <<idle, isr, queue_vars>>

\* Core::send(mod_id, msg) of the cfg(test) build: stamp, then the local loop.
send_test(mod_id, msg) ==
    /\ alive /\ pc = "main"
    /\ IF in_bounds(REGISTRY, mod_id)
       THEN LET stamped == stamp(msg, REGISTRY[mod_id + 1])
                r == local_loop(REGISTRY,
                                [buf |-> recv_buf, completed |-> <<>>,
                                 calls |-> <<>>, at |-> <<>>],
                                to_bytes(stamped), 1)
            IN  /\ recv_buf' = r.buf
                /\ completed' = r.completed
                /\ calls' = r.calls
                /\ last' = [NoCall EXCEPT !.op = "send", !.mod_id = mod_id,
                                          !.arg = <<msg>>, !.msg = <<stamped>>,
                                          !.at = r.at]
                /\ alive' = alive
       ELSE \* &reg[mod_id] out of bounds: panic before anything else
            /\ recv_buf' = recv_buf
            /\ completed' = <<>>
            /\ calls' = <<>>
            /\ last' = [NoCall EXCEPT !.op = "send", !.mod_id = mod_id,
                                      !.arg = <<msg>>, !.msg = <<msg>>,
                                      !.panic = TRUE]
            /\ alive' = FALSE
    /\ UNCHANGED <<REGISTRY, bus_vars>>
    /\ UNCHANGED <<idle, isr, queue_vars>>

\* The handles create_module has returned, and the first one it has not.
Handles == 0..Len(REGISTRY)

Next ==
    \/ \E t \in ModuleTypes :
          /\ Len(REGISTRY) < MaxModules
          /\ create_module(Aliases[Len(REGISTRY) + 1], t, Callbacks[Len(REGISTRY) + 1])
    \/ \E h \in Handles, id \in BusIds : set_module_id(h, id)
    \/ \E h \in Handles, m \in SendMsgs : send_test(h, m)
    \/ Core_new

Spec == Init /\ [][Next]_vars

--------------------------------------------------------------------------
\* The message queue of collections/msg_channel.rs.

\* Messages handed to Tx::send.
QueueMsgs == {m \in SendMsgs : m.target = 1 /\ m.target_mode # "Group"}

\* Tx::send that keeps the message the queue holds already.
Tx_send_keep(msg) ==
    /\ Len(q_log) < MaxOps
    /\ MSG' = IF MSG = <<>> THEN <<msg>> ELSE MSG
    /\ q_log' = Append(q_log, [op |-> "send", msg |-> <<msg>>])
    /\ UNCHANGED <<core_vars, rx>>

\* Tx::send(msg): MSG = Some(msg)
Tx_send(msg) ==
    /\ Len(q_log) < MaxOps
    /\ MSG' = <<msg>>
    /\ q_log' = Append(q_log, [op |-> "send", msg |-> <<msg>>])
    /\ UNCHANGED <<core_vars, rx>>

\* Rx::recv that leaves the message in the queue.
Rx_recv_peek ==
    /\ Len(q_log) < MaxOps
    /\ MSG' = MSG
    /\ q_log' = Append(q_log, [op |-> "recv", msg |-> MSG])
    /\ UNCHANGED <<core_vars, rx>>

\* Rx::recv(): clone of MSG; MSG = None if it was Some; the clone is returned.
Rx_recv ==
    /\ Len(q_log) < MaxOps
    /\ LET msg == MSG
       IN  /\ MSG' = IF msg # <<>> THEN <<>> ELSE MSG
           /\ q_log' = Append(q_log, [op |-> "recv", msg |-> msg])
    /\ UNCHANGED <<core_vars, rx>>

NextQueue ==
    \/ \E m \in QueueMsgs : Tx_send(m)
    \/ Rx_recv

SpecQueue == Init /\ [][NextQueue]_vars

\* Rx::recv, lines 29-35: the clone of MSG, taken in the main context.
Rx_recv_read ==
    /\ rx.pc = "idle"
    /\ Len(q_log) < MaxOps
    /\ rx' = [pc |-> "clear", msg |-> MSG]
    /\ UNCHANGED <<core_vars, MSG, q_log>>

\* Rx_recv_clear that empties the queue only if it still holds the clone's message.
Rx_recv_clear_if_same ==
    /\ rx.pc = "clear"
    /\ MSG' = IF rx.msg # <<>> /\ MSG = rx.msg THEN <<>> ELSE MSG
    /\ q_log' = Append(q_log, [op |-> "recv", msg |-> rx.msg])
    /\ rx' = [pc |-> "idle", msg |-> <<>>]
    /\ UNCHANGED core_vars

\* Rx::recv, lines 37-42: MSG = None if the clone is Some; the clone is returned.
Rx_recv_clear ==
    /\ rx.pc = "clear"
    /\ MSG' = IF rx.msg # <<>> THEN <<>> ELSE MSG
    /\ q_log' = Append(q_log, [op |-> "recv", msg |-> rx.msg])
    /\ rx' = [pc |-> "idle", msg |-> <<>>]
    /\ UNCHANGED core_vars

\* The message queue with Tx::send called from the reception callback, in
\* interrupt context, at any point of an Rx::recv of the main context.
NextQueueIrq ==
    \/ \E m \in QueueMsgs : Tx_send(m)
    \/ Rx_recv_read
    \/ Rx_recv_clear

SpecQueueIrq == Init /\ [][NextQueueIrq]_vars

--------------------------------------------------------------------------
\* The cfg(target_arch = "arm") build.

\* Frames remote nodes put on the bus.
RemoteMsgs ==
    {Message(IF n % 2 = 0 THEN "Id" ELSE "Broadcast", IF n % 2 = 0 THEN 1 ELSE 257,
             2, IF n % 2 = 0 THEN 2 ELSE 0, Payload(n)) : n \in 0..MaxData}

\* Messages the main context sends in the arm build.
ArmSendMsgs == {m \in SendMsgs : m.target_mode = "Id" /\ m.target = 257}

\* Module types and bus ids of the arm build's modules.
ArmModuleTypes == {"Ledstrip"}
ArmBusIds == {1}

\* physical::setup_timeout has enabled the TIM7 counter.
InitArm ==
    /\ REGISTRY = <<>>
    /\ recv_buf = <<>>
    /\ TX_LOCK = FALSE
    /\ alive = TRUE
    /\ pc = "main"
    /\ cur = <<>>
    /\ txq = <<>>
    /\ sink = <<>>
    /\ direction = "Receive"
    /\ cen = TRUE
    /\ cnt = 0
    /\ idle = TimerPeriod
    /\ line = <<>>
    /\ rx_frame = <<>>
    /\ recovered = FALSE
    /\ cut = FALSE
    /\ last = NoCall
    /\ completed = <<>>
    /\ calls = <<>>
    /\ isr = "none"
    /\ MSG = <<>>
    /\ q_log = <<>>
    /\ rx = [pc |-> "idle", msg |-> <<>>]

\* send_enter that takes the last module for a handle out of range.
send_enter_clamped(mod_id, msg) ==
    /\ alive /\ pc = "main"
    /\ IF REGISTRY # <<>>
       THEN LET h == IF in_bounds(REGISTRY, mod_id) THEN mod_id ELSE Len(REGISTRY) - 1
            IN  /\ cur' = <<[mod_id |-> mod_id, arg |-> msg,
                             msg |-> stamp(msg, REGISTRY[h + 1])]>>
                /\ pc' = "wait_unlock"
                /\ UNCHANGED <<alive, last, completed, calls>>
       ELSE /\ last' = [NoCall EXCEPT !.op = "send", !.mod_id = mod_id,
                                      !.arg = <<msg>>, !.msg = <<msg>>,
                                      !.panic = TRUE]
            /\ alive' = FALSE
            /\ completed' = <<>>
            /\ calls' = <<>>
            /\ UNCHANGED <<cur, pc>>
    /\ UNCHANGED <<REGISTRY, recv_buf, TX_LOCK, txq, sink, direction, cen, cnt,
                   line, rx_frame, recovered, cut>>
    /\ UNCHANGED <<idle, isr, queue_vars>>

\* Core::send, lines 117-119: look the module up and stamp the source.
send_enter(mod_id, msg) ==
    /\ alive /\ pc = "main"
    /\ IF in_bounds(REGISTRY, mod_id)
       THEN /\ cur' = <<[mod_id |-> mod_id, arg |-> msg,
                         msg |-> stamp(msg, REGISTRY[mod_id + 1])]>>
            /\ pc' = "wait_unlock"
            /\ UNCHANGED <<alive, last, completed, calls>>
       ELSE /\ last' = [NoCall EXCEPT !.op = "send", !.mod_id = mod_id,
                                      !.arg = <<msg>>, !.msg = <<msg>>,
                                      !.panic = TRUE]
            /\ alive' = FALSE
            /\ completed' = <<>>
            /\ calls' = <<>>
            /\ UNCHANGED <<cur, pc>>
    /\ UNCHANGED <<REGISTRY, recv_buf, TX_LOCK, txq, sink, direction, cen, cnt,
                   line, rx_frame, recovered, cut>>
    /\ UNCHANGED <<idle, isr, queue_vars>>

\* Core::send, line 122: the wait loop reads TX_LOCK as false and exits.
send_wait_unlock ==
    /\ alive /\ pc = "wait_unlock"
    /\ ~TX_LOCK
    /\ pc' = "lock"
    /\ UNCHANGED <<REGISTRY, recv_buf, TX_LOCK, alive, cur, txq, sink, direction,
                   cen, cnt, line, rx_frame, recovered, cut, last, completed, calls>>
    /\ UNCHANGED <<idle, isr, queue_vars>>

\* Core::send, lines 125-129: set TX_LOCK and enter physical::send(msg).
send_lock ==
    /\ alive /\ pc = "lock"
    /\ TX_LOCK' = TRUE
    /\ txq' = to_bytes(cur[1].msg)
    /\ sink' = <<>>
    /\ pc' = "physical_send"
    /\ UNCHANGED <<REGISTRY, recv_buf, alive, cur, direction, cen, cnt, line,
                   rx_frame, recovered, cut, last, completed, calls>>
    /\ UNCHANGED <<idle, isr, queue_vars>>

\* physical::send_when_ready(byte): transmit direction, wait for the UART, write tdr.
send_when_ready ==
    /\ alive /\ pc = "physical_send"
    /\ txq # <<>>
    /\ direction' = "Transmit"
    /\ sink' = Append(sink, Head(txq))
    /\ txq' = Tail(txq)
    /\ UNCHANGED <<REGISTRY, recv_buf, TX_LOCK, alive, pc, cur, cen, cnt, line,
                   rx_frame, recovered, cut, last, completed, calls>>
    /\ UNCHANGED <<idle, isr, queue_vars>>

\* physical_send_end that leaves the line in the transmit direction.
physical_send_end_keep_tx ==
    /\ alive /\ pc = "physical_send"
    /\ txq = <<>>
    /\ cnt' = 0
    /\ cen' = TRUE
    /\ pc' = "main"
    /\ cur' = <<>>
    /\ sink' = <<>>
    /\ last' = [NoCall EXCEPT !.op = "send", !.mod_id = cur[1].mod_id,
                              !.arg = <<cur[1].arg>>, !.msg = <<cur[1].msg>>]
    /\ completed' = <<>>
    /\ calls' = <<>>
    /\ UNCHANGED <<REGISTRY, recv_buf, TX_LOCK, alive, txq, direction, line, rx_frame,
                   recovered, cut>>
    /\ UNCHANGED <<idle, isr, queue_vars>>

\* physical_send_end that leaves the timer as it is.
physical_send_end_no_resume ==
    /\ alive /\ pc = "physical_send"
    /\ txq = <<>>
    /\ direction' = "Receive"
    /\ pc' = "main"
    /\ cur' = <<>>
    /\ sink' = <<>>
    /\ last' = [NoCall EXCEPT !.op = "send", !.mod_id = cur[1].mod_id,
                              !.arg = <<cur[1].arg>>, !.msg = <<cur[1].msg>>]
    /\ completed' = <<>>
    /\ calls' = <<>>
    /\ UNCHANGED <<REGISTRY, recv_buf, TX_LOCK, alive, txq, cen, cnt, line, rx_frame,
                   recovered, cut>>
    /\ UNCHANGED <<idle, isr, queue_vars>>

\* physical::send, lines 182-195: receive direction, restart the timer; send returns.
physical_send_end ==
    /\ alive /\ pc = "physical_send"
    /\ txq = <<>>
    /\ direction' = "Receive"
    /\ cnt' = 0
    /\ cen' = TRUE
    /\ pc' = "main"
    /\ cur' = <<>>
    /\ sink' = <<>>
    /\ last' = [NoCall EXCEPT !.op = "send", !.mod_id = cur[1].mod_id,
                              !.arg = <<cur[1].arg>>, !.msg = <<cur[1].msg>>]
    /\ completed' = <<>>
    /\ calls' = <<>>
    /\ UNCHANGED <<REGISTRY, recv_buf, TX_LOCK, alive, txq, line, rx_frame, recovered, cut>>
    /\ UNCHANGED <<idle, isr, queue_vars>>

\* hard_receive that releases TX_LOCK when the byte completes a frame.
hard_receive_unlock ==
    /\ alive
    /\ line # <<>>
    /\ direction = "Receive"
    /\ LET r == receive(REGISTRY, recv_buf, Head(line))
       IN  /\ recv_buf' = r.buf
           /\ completed' = r.completed
           /\ calls' = r.calls
           /\ TX_LOCK' = (r.completed = <<>>)
    /\ cnt' = 0
    /\ idle' = 0
    /\ cen' = TRUE
    /\ line' = Tail(line)
    /\ last' = [NoCall EXCEPT !.op = "receive"]
    /\ UNCHANGED <<REGISTRY, alive, pc, cur, txq, sink, direction, rx_frame, recovered, cut>>
    /\ UNCHANGED <<isr, queue_vars>>

\* hard_receive that leaves the timer as it is.
hard_receive_no_reset ==
    /\ alive
    /\ line # <<>>
    /\ direction = "Receive"
    /\ LET r == receive(REGISTRY, recv_buf, Head(line))
       IN  /\ recv_buf' = r.buf
           /\ completed' = r.completed
           /\ calls' = r.calls
    /\ idle' = 0
    /\ TX_LOCK' = TRUE
    /\ line' = Tail(line)
    /\ last' = [NoCall EXCEPT !.op = "receive"]
    /\ UNCHANGED <<REGISTRY, alive, pc, cur, txq, sink, direction, cen, cnt, rx_frame,
                   recovered, cut>>
    /\ UNCHANGED <<isr, queue_vars>>

\* hard_receive whose reception callback leaves TX_LOCK as it is.
hard_receive_no_lock ==
    /\ alive
    /\ line # <<>>
    /\ direction = "Receive"
    /\ LET r == receive(REGISTRY, recv_buf, Head(line))
       IN  /\ recv_buf' = r.buf
           /\ completed' = r.completed
           /\ calls' = r.calls
    /\ cnt' = 0
    /\ idle' = 0
    /\ cen' = TRUE
    /\ line' = Tail(line)
    /\ last' = [NoCall EXCEPT !.op = "receive"]
    /\ UNCHANGED <<REGISTRY, TX_LOCK, alive, pc, cur, txq, sink, direction, rx_frame,
                   recovered, cut>>
    /\ UNCHANGED <<isr, queue_vars>>

\* physical::receive, the USART1 interrupt: restart the timer, then the reception
\* callback Core::receive(byte), which sets TX_LOCK first. The receiver is
\* disabled while the transceiver is in the transmit direction.
hard_receive ==
    /\ alive
    /\ line # <<>>
    /\ direction = "Receive"
    /\ LET r == receive(REGISTRY, recv_buf, Head(line))
       IN  /\ recv_buf' = r.buf
           /\ completed' = r.completed
           /\ calls' = r.calls
    /\ cnt' = 0
    /\ idle' = 0
    /\ cen' = TRUE
    /\ TX_LOCK' = TRUE
    /\ line' = Tail(line)
    /\ last' = [NoCall EXCEPT !.op = "receive"]
    /\ UNCHANGED <<REGISTRY, alive, pc, cur, txq, sink, direction, rx_frame, recovered, cut>>
    /\ UNCHANGED <<isr, queue_vars>>

\* timeout that does not flush the reception buffer.
timeout_no_flush ==
    /\ alive
    /\ cen /\ cnt = TimerPeriod
    /\ TX_LOCK' = FALSE
    /\ cen' = FALSE
    /\ cnt' = 0
    /\ rx_frame' = <<>>
    /\ recovered' = (Len(recv_buf) >= HEADER_SIZE)
    /\ cut' = (line # <<>>)
    /\ last' = [NoCall EXCEPT !.op = "timeout"]
    /\ completed' = <<>>
    /\ calls' = <<>>
    /\ UNCHANGED <<REGISTRY, recv_buf, alive, pc, cur, txq, sink, direction, line>>
    /\ UNCHANGED <<idle, isr, queue_vars>>

\* physical::timeout, the TIM7 interrupt.
timeout ==
    /\ alive
    /\ cen /\ cnt = TimerPeriod
    /\ TX_LOCK' = FALSE
    /\ cen' = FALSE
    /\ cnt' = 0
    /\ recv_buf' = recv_buf_flush(recv_buf)
    /\ rx_frame' = <<>>
    /\ recovered' = (Len(recv_buf) >= HEADER_SIZE)
    /\ cut' = (line # <<>>)
    /\ last' = [NoCall EXCEPT !.op = "timeout"]
    /\ completed' = <<>>
    /\ calls' = <<>>
    /\ UNCHANGED <<REGISTRY, alive, pc, cur, txq, sink, direction, line>>
    /\ UNCHANGED <<idle, isr, queue_vars>>

\* One tick of the running TIM7 counter.
tick ==
    /\ alive
    /\ cen /\ cnt < TimerPeriod
    /\ cnt' = cnt + 1
    /\ idle' = IF idle < TimerPeriod THEN idle + 1 ELSE idle
    /\ UNCHANGED <<REGISTRY, recv_buf, TX_LOCK, alive, pc, cur, txq, sink, direction,
                   cen, line, rx_frame, recovered, cut, last, completed, calls>>
    /\ UNCHANGED <<isr, queue_vars>>

\* A remote node starts to transmit the frame of msg: right after a frame that
\* was sent whole, or once the bus has been silent for a timeout period.
remote_start(msg) ==
    /\ alive
    /\ line = <<>>
    /\ ~cut \/ ~cen
    /\ cut' = FALSE
    /\ line' = to_bytes(msg)
    /\ rx_frame' = <<msg>>
    /\ UNCHANGED <<REGISTRY, recv_buf, TX_LOCK, alive, pc, cur, txq, sink, direction,
                   cen, cnt, recovered, last, completed, calls>>
    /\ UNCHANGED <<idle, isr, queue_vars>>

\* The remote node stops before the end of its frame.
remote_abort ==
    /\ alive
    /\ line # <<>>
    /\ line' = <<>>
    /\ rx_frame' = <<>>
    /\ cut' = TRUE
    /\ UNCHANGED <<REGISTRY, recv_buf, TX_LOCK, alive, pc, cur, txq, sink, direction,
                   cen, cnt, recovered, last, completed, calls>>
    /\ UNCHANGED <<idle, isr, queue_vars>>

\* A byte of the remote frame passes while the receiver is disabled.
rx_missed ==
    /\ alive
    /\ line # <<>>
    /\ direction = "Transmit"
    /\ line' = Tail(line)
    /\ rx_frame' = <<>>
    /\ cut' = TRUE
    /\ UNCHANGED <<REGISTRY, recv_buf, TX_LOCK, alive, pc, cur, txq, sink, direction,
                   cen, cnt, recovered, last, completed, calls>>
    /\ UNCHANGED <<idle, isr, queue_vars>>

NextArm ==
    \/ \E t \in ArmModuleTypes :
          /\ Len(REGISTRY) < ArmMaxModules
          /\ create_module(Aliases[Len(REGISTRY) + 1], t, Callbacks[Len(REGISTRY) + 1])
    \/ \E h \in Handles, id \in ArmBusIds : set_module_id(h, id)
    \/ \E h \in Handles, m \in ArmSendMsgs : send_enter(h, m)
    \/ send_wait_unlock
    \/ send_lock
    \/ send_when_ready
    \/ physical_send_end
    \/ hard_receive
    \/ timeout
    \/ tick
    \/ \E m \in RemoteMsgs : remote_start(m)
    \/ remote_abort
    \/ rx_missed

SpecArm == InitArm /\ [][NextArm]_vars

\* The arm build once its module is created and has its bus id.
InitArmLive ==
    /\ REGISTRY = <<[Module_new(Aliases[1], "Ledstrip", Callbacks[1]) EXCEPT !.id = 1]>>
    /\ recv_buf = <<>>
    /\ TX_LOCK = FALSE
    /\ alive = TRUE
    /\ pc = "main"
    /\ cur = <<>>
    /\ txq = <<>>
    /\ sink = <<>>
    /\ direction = "Receive"
    /\ cen = TRUE
    /\ cnt = 0
    /\ idle = TimerPeriod
    /\ line = <<>>
    /\ rx_frame = <<>>
    /\ recovered = FALSE
    /\ cut = FALSE
    /\ last = NoCall
    /\ completed = <<>>
    /\ calls = <<>>
    /\ isr = "none"
    /\ MSG = <<>>
    /\ q_log = <<>>
    /\ rx = [pc |-> "idle", msg |-> <<>>]

NextArmLive ==
    \/ \E h \in Handles, m \in ArmSendMsgs : send_enter(h, m)
    \/ send_wait_unlock
    \/ send_lock
    \/ send_when_ready
    \/ physical_send_end
    \/ hard_receive
    \/ timeout
    \/ tick
    \/ \E m \in RemoteMsgs : remote_start(m)
    \/ remote_abort
    \/ rx_missed

\* The arm build with a fair timer, interrupts that are served, a UART that
\* always ends up ready for the next byte and a main context that keeps running
\* the send it is in.
SpecArmLive ==
    /\ InitArmLive /\ [][NextArmLive]_vars
    /\ WF_vars(tick)
    /\ WF_vars(timeout)
    /\ WF_vars(hard_receive)
    /\ WF_vars(send_wait_unlock)
    /\ WF_vars(send_lock)
    /\ WF_vars(send_when_ready)
    /\ WF_vars(physical_send_end)

--------------------------------------------------------------------------
\* The arm build with a reception callback that calls Core::send.

\* The callbacks that call Core::send(0, reply) on the message they are given.
SendingCallbacks == {Callbacks[1]}

\* Some callback of the invocations cs calls Core::send.
calls_send(cs) == \E i \in DOMAIN cs : cs[i].callback \in SendingCallbacks

\* hard_receive_cb whose reception callback leaves TX_LOCK as it is.
hard_receive_cb_no_lock ==
    /\ alive /\ isr = "none"
    /\ line # <<>>
    /\ direction = "Receive"
    /\ LET r == receive(REGISTRY, recv_buf, Head(line))
       IN  /\ recv_buf' = r.buf
           /\ completed' = r.completed
           /\ calls' = r.calls
           /\ isr' = IF calls_send(r.calls) THEN "wait_unlock" ELSE "none"
    /\ cnt' = 0
    /\ idle' = 0
    /\ cen' = TRUE
    /\ line' = Tail(line)
    /\ last' = [NoCall EXCEPT !.op = "receive"]
    /\ UNCHANGED <<REGISTRY, TX_LOCK, alive, pc, cur, txq, sink, direction, rx_frame,
                   recovered, cut>>
    /\ UNCHANGED queue_vars

\* physical::receive, the USART1 interrupt, inside its critical section: restart
\* the timer, then Core::receive(byte); a callback of the dispatch that calls
\* Core::send looks its module up, stamps the source and reaches the wait loop.
hard_receive_cb ==
    /\ alive /\ isr = "none"
    /\ line # <<>>
    /\ direction = "Receive"
    /\ LET r == receive(REGISTRY, recv_buf, Head(line))
       IN  /\ recv_buf' = r.buf
           /\ completed' = r.completed
           /\ calls' = r.calls
           /\ isr' = IF calls_send(r.calls) THEN "wait_unlock" ELSE "none"
    /\ cnt' = 0
    /\ idle' = 0
    /\ cen' = TRUE
    /\ TX_LOCK' = TRUE
    /\ line' = Tail(line)
    /\ last' = [NoCall EXCEPT !.op = "receive"]
    /\ UNCHANGED <<REGISTRY, alive, pc, cur, txq, sink, direction, rx_frame, recovered, cut>>
    /\ UNCHANGED queue_vars

\* Core::send called by the callback, line 122: one reading of TX_LOCK by the
\* wait loop; the loop goes round while it is set and is left when it is clear.
cb_send_wait_unlock ==
    /\ alive /\ isr = "wait_unlock"
    /\ isr' = IF TX_LOCK THEN "wait_unlock" ELSE "sending"
    /\ UNCHANGED <<REGISTRY, recv_buf, TX_LOCK, alive, pc, cur, txq, sink, direction,
                   cen, cnt, idle, line, rx_frame, recovered, cut, last, completed, calls>>
    /\ UNCHANGED queue_vars

\* While the USART1 interrupt runs, in its critical section, the main context
\* and the TIM7 interrupt do not; the TIM7 counter and the bus go on.
NextArmCallback ==
    \/ \E h \in Handles, m \in ArmSendMsgs : isr = "none" /\ send_enter(h, m)
    \/ isr = "none" /\ send_wait_unlock
    \/ isr = "none" /\ send_lock
    \/ isr = "none" /\ send_when_ready
    \/ isr = "none" /\ physical_send_end
    \/ hard_receive_cb
    \/ cb_send_wait_unlock
    \/ isr = "none" /\ timeout
    \/ tick
    \/ \E m \in RemoteMsgs : remote_start(m)
    \/ remote_abort
    \/ rx_missed

SpecArmCallback == InitArmLive /\ [][NextArmCallback]_vars

--------------------------------------------------------------------------
\* Claims.

\* A local transmission is in progress: Core::send has set TX_LOCK and
\* physical::send has not pushed its last byte yet.
LocalTransmit == pc = "physical_send" /\ txq # <<>>

\* A frame from the bus is being assembled: bytes received and not yet
\* completed into a message or flushed.
FrameAssembly == recv_buf # <<>>

\* C1: at no instant are a local transmission and the assembly of a frame from
\* the bus both in progress on the node.
C1_MutualExclusion == ~(LocalTransmit /\ FrameAssembly)

\* The modules of the registry a list of callback invocations ran, as handles.
Invoked(cs) == {cs[i].module : i \in DOMAIN cs}

\* The last call was a Core::send that returned.
SendReturned == last.op = "send" /\ ~last.panic

\* C2: after Core::send(h, m) the source of m, and of the frame looped back, is
\* the bus id of module h, whatever the caller wrote there, and every other
\* field of m is as the caller passed it.
C2_SourceStamping ==
    SendReturned =>
        LET m == last.msg[1]
            arg == last.arg[1]
            id == REGISTRY[last.mod_id + 1].id
        IN  /\ m.source = id
            /\ m.target_mode = arg.target_mode
            /\ m.target = arg.target
            /\ m.command = arg.command
            /\ m.data = arg.data
            /\ completed # <<>>
            /\ \A i \in DOMAIN completed : completed[i].source = id

C2_Witness ==
    /\ SendReturned
    /\ REGISTRY[last.mod_id + 1].id = 1
    /\ last.arg[1].source = 257
    /\ last.msg[1].source = 1
    /\ last.arg[1].data = <<>>

\* C3: a completed message addressed by id to X invokes exactly the modules
\* whose bus id is X and the Sniffer modules.
C3_TargetedDispatch ==
    (SendReturned /\ Len(completed) = 1 /\ completed[1].target_mode = "Id") =>
        /\ Invoked(calls) =
              {i - 1 : i \in {j \in DOMAIN REGISTRY :
                                \/ REGISTRY[j].id = completed[1].target
                                \/ REGISTRY[j].mod_type = "Sniffer"}}
        /\ \A i \in DOMAIN calls : calls[i].callback = REGISTRY[calls[i].module + 1].callback

C3_Witness ==
    /\ SendReturned /\ Len(completed) = 1 /\ completed[1].target_mode = "Id"
    /\ Len(REGISTRY) = 2
    /\ REGISTRY[1].id = completed[1].target
    /\ REGISTRY[2].id # completed[1].target /\ REGISTRY[2].id # UNSET_ID
    /\ REGISTRY[2].mod_type # "Sniffer"
    /\ Invoked(calls) = {0}

\* C4: a broadcast message sent by module h invokes the callback of every
\* registered module exactly once, with the command and payload sent and the
\* bus id of h as source.
C4_BroadcastDispatch ==
    (SendReturned /\ last.arg[1].target_mode = "Broadcast") =>
        /\ \A j \in DOMAIN REGISTRY :
              Cardinality({i \in DOMAIN calls : calls[i].module = j - 1}) = 1
        /\ \A i \in DOMAIN calls :
              /\ calls[i].callback = REGISTRY[calls[i].module + 1].callback
              /\ calls[i].msg.command = last.arg[1].command
              /\ calls[i].msg.data = last.arg[1].data
              /\ calls[i].msg.source = REGISTRY[last.mod_id + 1].id

C4_Witness ==
    /\ SendReturned /\ last.arg[1].target_mode = "Broadcast"
    /\ Len(REGISTRY) = 2 /\ Len(calls) = 2
    /\ last.mod_id = 1
    /\ REGISTRY[1].id # REGISTRY[2].id
    /\ calls[1].msg.data # <<>>

\* The remote frame in flight is intact: it began after a whole frame or after
\* a silence, in order, no byte of it lost and no timeout since.
Intact == rx_frame # <<>>

\* What feeding the bytes of to_bytes(m) in order has to give: nothing completes
\* before the last byte, the last byte completes m, and the buffer is empty again.
FedInOrder(m) ==
    /\ line # <<>> =>
          /\ recv_buf \o line = to_bytes(m)
          /\ (last.op = "receive" /\ recv_buf # <<>>) => completed = <<>>
    /\ line = <<>> =>
          /\ recv_buf = <<>>
          /\ last.op = "receive" => completed = <<m>>

\* C5: the bytes of serialize(m), received one at a time from an idle assembler
\* with no timeout in between, complete exactly one message, m, on the last
\* byte and leave the assembler idle.
C5_IncrementalEquivalence == Intact => FedInOrder(rx_frame[1])

C5_Witness ==
    /\ Intact /\ line = <<>> /\ last.op = "receive"
    /\ completed = <<rx_frame[1]>>
    /\ Len(rx_frame[1].data) = MaxData
    /\ recv_buf = <<>>

\* C6: after a timeout has discarded a frame with a complete header and an
\* incomplete payload, the bytes of a whole frame m2 complete exactly one
\* message, m2; nothing of the discarded frame is dispatched or mixed into it.
C6_TimeoutRecovery ==
    recovered =>
        /\ last.op = "timeout" => recv_buf = <<>>
        /\ Intact => FedInOrder(rx_frame[1])
        /\ (Intact /\ last.op = "receive" /\ (recv_buf # <<>> \/ line = <<>>)) =>
              \A i \in DOMAIN calls : calls[i].msg = rx_frame[1]

C6_Witness ==
    /\ recovered /\ Intact /\ line = <<>> /\ last.op = "receive"
    /\ completed = <<rx_frame[1]>>
    /\ calls # <<>>

\* C7 as claimed: a Sniffer module is invoked for every completed message,
\* whatever its target mode.
C7_SnifferEveryMessage ==
    (SendReturned /\ completed # <<>>) =>
        \A j \in DOMAIN REGISTRY :
            REGISTRY[j].mod_type = "Sniffer" => (j - 1) \in Invoked(calls)

\* C7 as amended: a Sniffer module is invoked for every completed Broadcast
\* message and every completed Id message, whatever the target; for a Type or
\* Group message it is not invoked.
C7_SnifferBroadcastOrId ==
    (SendReturned /\ completed # <<>>) =>
        \A j \in DOMAIN REGISTRY :
            REGISTRY[j].mod_type = "Sniffer" =>
                ((j - 1) \in Invoked(calls)
                    <=> completed[1].target_mode \in {"Broadcast", "Id"})

C7_Witness ==
    /\ SendReturned /\ Len(completed) = 1
    /\ completed[1].target_mode = "Id"
    /\ Len(REGISTRY) = 2
    /\ REGISTRY[2].mod_type = "Sniffer"
    /\ REGISTRY[2].id # completed[1].target
    /\ REGISTRY[1].id # completed[1].target
    /\ Invoked(calls) = {1}

\* The step is a call of create_module.
CreateStep == last'.op = "create_module" /\ last' # last

\* C8: create_module appends one module with the unset bus id at the end of the
\* registry, returns its index, the number of modules before the call, and
\* leaves the earlier modules as they were.
C8_CreateModule ==
    [][CreateStep =>
          /\ Len(REGISTRY') = Len(REGISTRY) + 1
          /\ SubSeq(REGISTRY', 1, Len(REGISTRY)) = REGISTRY
          /\ REGISTRY'[Len(REGISTRY')].id = UNSET_ID
          /\ last'.ret = Len(REGISTRY)]_vars

C8_Witness ==
    /\ last.op = "create_module" /\ last.ret = 1
    /\ Len(REGISTRY) = 2
    /\ REGISTRY[1].id = 257
    /\ REGISTRY[2].id = UNSET_ID

\* The step is a call of set_module_id that returned.
SetIdStep == last'.op = "set_module_id" /\ ~last'.panic /\ last' # last

\* C9: set_module_id(h, id) with a valid handle sets the bus id of module h,
\* also to an id another module has, and changes nothing else.
C9_SetModuleId ==
    [][SetIdStep =>
          /\ REGISTRY' = [REGISTRY EXCEPT ![last'.mod_id + 1].id = last'.robus_id]
          /\ TX_LOCK' = TX_LOCK
          /\ recv_buf' = recv_buf
          /\ alive']_vars

C9_Witness ==
    /\ last.op = "set_module_id" /\ ~last.panic
    /\ Len(REGISTRY) = 2
    /\ last.mod_id = 1
    /\ REGISTRY[1].id = 257 /\ REGISTRY[2].id = 257

\* The step is a call with a module handle that is out of range.
BadHandleStep ==
    /\ last' # last
    /\ last'.op \in {"set_module_id", "send"}
    /\ last'.mod_id >= Len(REGISTRY)

\* C10: set_module_id and send with a handle out of range abort, and have
\* changed no module, not the message, not the lock, and sent nothing.
C10_InvalidHandle ==
    [][BadHandleStep =>
          /\ last'.panic /\ ~alive'
          /\ REGISTRY' = REGISTRY
          /\ last'.msg = last'.arg
          /\ TX_LOCK' = TX_LOCK
          /\ sink' = sink /\ txq' = txq /\ direction' = direction
          /\ recv_buf' = recv_buf]_vars

C10_Witness ==
    /\ ~alive /\ last.panic /\ last.op = "send"
    /\ Len(REGISTRY) = 1 /\ last.mod_id = 1
    /\ ~TX_LOCK /\ sink = <<>>

\* The step is a call of Core::new on a process that has a Core already.
NewStep == last'.op = "new" /\ (last' # last \/ REGISTRY' # REGISTRY)

\* C11: a second Core::new aborts the process and leaves the registry of the
\* first Core as it was, neither replaced nor emptied.
C11_SecondCoreFatal ==
    [][NewStep => (~alive' /\ REGISTRY' = REGISTRY)]_vars

\* C19: under every sequence of Core::new, create_module, set_module_id, send
\* and receive the registry never gets shorter, and a handle keeps designating
\* the module of the same alias, type and callback.
C19_RegistryAppendOnly ==
    [][/\ Len(REGISTRY') >= Len(REGISTRY)
       /\ \A j \in DOMAIN REGISTRY :
             /\ REGISTRY'[j].alias = REGISTRY[j].alias
             /\ REGISTRY'[j].mod_type = REGISTRY[j].mod_type
             /\ REGISTRY'[j].callback = REGISTRY[j].callback]_vars

\* The registry as C19 has it, on the steps that are not a second Core::new.
RegistryAppendOnlyButNew ==
    [][last'.op # "new" =>
          /\ Len(REGISTRY') >= Len(REGISTRY)
          /\ \A j \in DOMAIN REGISTRY :
                /\ REGISTRY'[j].alias = REGISTRY[j].alias
                /\ REGISTRY'[j].mod_type = REGISTRY[j].mod_type
                /\ REGISTRY'[j].callback = REGISTRY[j].callback]_vars

\* The calls of the log before the i-th one and after the recv that precedes it.
SinceRecv(i) ==
    {j \in 1..(i - 1) : \A k \in j..(i - 1) : q_log[k].op # "recv"}

\* The i-th call of the log is a recv.
IsRecv(i) == i \in DOMAIN q_log /\ q_log[i].op = "recv"

\* C12: the recv that follows one send of m returns Some(m), every recv with no
\* send since the recv before it returns None, and after a recv the queue is
\* empty.
C12_RecvTakesOnce ==
    /\ \A i \in DOMAIN q_log :
          IsRecv(i) =>
              /\ SinceRecv(i) = {} => q_log[i].msg = <<>>
              /\ SinceRecv(i) = {i - 1} => q_log[i].msg = q_log[i - 1].msg
    /\ IsRecv(Len(q_log)) => MSG = <<>>

C12_Witness ==
    /\ Len(q_log) = 4
    /\ q_log[1].op = "send" /\ IsRecv(2) /\ IsRecv(3) /\ IsRecv(4)
    /\ q_log[2].msg = q_log[1].msg
    /\ q_log[3].msg = <<>> /\ q_log[4].msg = <<>>
    /\ MSG = <<>>

\* C13: the recv that follows n >= 1 sends returns the message of the last of
\* them, the recv after that returns None, and no earlier message comes back.
C13_SingleSlot ==
    \A i \in DOMAIN q_log :
        (IsRecv(i) /\ SinceRecv(i) # {}) =>
            /\ q_log[i].msg = q_log[i - 1].msg
            /\ IsRecv(i + 1) => q_log[i + 1].msg = <<>>

C13_Witness ==
    /\ Len(q_log) = 4
    /\ q_log[1].op = "send" /\ q_log[2].op = "send" /\ IsRecv(3) /\ IsRecv(4)
    /\ q_log[1].msg # q_log[2].msg
    /\ q_log[3].msg = q_log[2].msg
    /\ q_log[4].msg = <<>>

\* C14: while Core::send, having set the lock, is still pushing the bytes of its
\* message, the lock is set.
C14_LockHeldWhileSending == (pc = "physical_send") => TX_LOCK

\* C15: every received byte sets the transmit lock, and a non-empty reception
\* buffer implies the transmit lock is set.
C15_LockHeldWhileAssembling ==
    /\ recv_buf # <<>> => TX_LOCK
    /\ last.op = "receive" => TX_LOCK

C15_Witness ==
    /\ last.op = "receive" /\ recv_buf # <<>> /\ TX_LOCK
    /\ pc = "wait_unlock"

\* The bus steps of a Core::send come in the order of the code: the wait loop
\* exits on a free lock, then the lock is set, then the bytes of the serialized
\* message go to the sink in order with the line in the transmit direction, and
\* after the last one the line is switched to receive and the timer restarted.
SendOrderStep ==
    /\ (pc' = "lock" /\ pc # "lock") => (pc = "wait_unlock" /\ ~TX_LOCK)
    /\ (pc' = "physical_send" /\ pc # "physical_send") => (pc = "lock" /\ TX_LOCK')
    /\ (sink' # sink /\ sink' # <<>>) =>
          /\ pc = "physical_send"
          /\ direction' = "Transmit"
          /\ sink' = SubSeq(to_bytes(cur[1].msg), 1, Len(sink) + 1)
    /\ (pc = "physical_send" /\ pc' # "physical_send") =>
          /\ sink = to_bytes(cur[1].msg)
          /\ direction' = "Receive" /\ cnt' = 0 /\ cen'
          /\ pc' = "main"

\* The lock is released only once the send that set it is over and the timer
\* it restarted has run a whole period.
ReleaseAfterGapStep ==
    (TX_LOCK /\ ~TX_LOCK') => (pc \notin {"physical_send"} /\ cnt = TimerPeriod)

\* C16: each Core::send waits for the lock, sets it, switches the line to
\* transmit, pushes the bytes of the message in order, switches the line back
\* to receive and restarts the timer; the lock is released only after that
\* timer has run a whole period.
C16_SendStepOrder == [][SendOrderStep /\ ReleaseAfterGapStep]_vars

\* The order of the bus steps alone.
SendOrderAlone == [][SendOrderStep]_vars

\* Inbound bytes stop at last.
InboundStops == <>[](line = <<>>)

\* C17: with a fair timer and a sink that accepts every byte in the end, if
\* inbound bytes stop then every Core::send returns, and the lock it leaves set
\* is released in the end, unless the program has aborted.
C17_SendLiveness ==
    InboundStops =>
        /\ (pc = "wait_unlock") ~> (pc = "main")
        /\ TX_LOCK ~> (~TX_LOCK \/ ~alive)

C17_Witness ==
    /\ pc = "wait_unlock" /\ TX_LOCK
    /\ line = <<>> /\ recv_buf # <<>>
    /\ cen /\ cnt = 0

\* The step is the reception of a byte.
RxStep == last'.op = "receive" /\ recv_buf' # recv_buf

\* The step is the timeout interrupt.
TimeoutStep == cen /\ ~cen'

\* C18: every received byte restarts the timer from zero, and the timeout fires
\* only when a whole period has passed since the last received byte.
C18_TimerRestart ==
    [][/\ RxStep => (cnt' = 0 /\ cen')
       /\ TimeoutStep => (cnt = TimerPeriod /\ idle = TimerPeriod)]_vars

C18_Witness ==
    /\ last.op = "receive" /\ recv_buf # <<>> /\ line # <<>>
    /\ Intact
    /\ cen /\ cnt = TimerPeriod - 1 /\ idle = TimerPeriod - 1

\* The last call was a Core::send of a message addressed by type or by group,
\* and it returned.
ZeroSent == SendReturned /\ last.arg[1].target_mode \in {"Type", "Group"}

\* The last call was a Core::send of a broadcast message, and it returned.
BroadcastSent == SendReturned /\ last.arg[1].target_mode = "Broadcast"

\* C20: a completed message addressed by type or by group invokes no callback,
\* whatever the registry and the target; the reception returns, the assembler
\* is idle again, and the next frame is completed and dispatched as usual.
C20_ZeroDispatch ==
    [][/\ ZeroSent' =>
             /\ completed' = last'.msg
             /\ calls' = <<>>
             /\ recv_buf' = <<>>
             /\ alive'
       /\ (ZeroSent /\ BroadcastSent') =>
             /\ completed' = last'.msg
             /\ Invoked(calls') = {j - 1 : j \in DOMAIN REGISTRY'}
             /\ recv_buf' = <<>>]_vars

C20_Witness ==
    /\ ZeroSent
    /\ last.arg[1].target_mode = "Type"
    /\ Len(REGISTRY) = 2
    /\ REGISTRY[1].id = last.arg[1].target
    /\ REGISTRY[2].mod_type = "Sniffer"
    /\ completed = last.msg /\ calls = <<>> /\ recv_buf = <<>>

\* C21: the callbacks of a completed message run in increasing local index, each
\* at most once and each with a copy of the message, inside the reception call
\* of the final byte of the frame.
C21_CallbackOrder ==
    (SendReturned /\ calls # <<>>) =>
        /\ \A i, j \in DOMAIN calls : i < j => calls[i].module < calls[j].module
        /\ \A i \in DOMAIN calls :
              /\ calls[i].msg = last.msg[1]
              /\ calls[i].callback = REGISTRY[calls[i].module + 1].callback
        /\ completed = last.msg
        /\ last.at = <<Len(to_bytes(last.msg[1]))>>

C21_Witness ==
    /\ SendReturned
    /\ last.arg[1].target_mode = "Id"
    /\ Len(calls) = 2
    /\ calls[1].module = 0 /\ calls[2].module = 1
    /\ calls[1].callback # calls[2].callback
    /\ last.at = <<HEADER_SIZE + MaxData>>

\* C22: the transmit lock is cleared by the timeout interrupt and by nothing
\* else; after the byte that completes a frame the lock is still set.
C22_OnlyTimeoutUnlocks ==
    [][/\ (TX_LOCK /\ ~TX_LOCK') => (TimeoutStep /\ last'.op = "timeout")
       /\ (RxStep /\ completed' # <<>>) => TX_LOCK']_vars

C22_Witness ==
    /\ last.op = "receive" /\ completed # <<>> /\ recv_buf = <<>>
    /\ TX_LOCK
    /\ pc = "main" /\ cen /\ cnt = TimerPeriod

\* C25: the line is in the transmit direction only inside the transmission of a
\* Core::send, it is back in the receive direction when send returns, and the
\* reception and the timeout interrupts leave the direction as it is.
C25_DirectionOnlyInSend ==
    [][/\ direction' = "Transmit" => pc' = "physical_send"
       /\ direction' # direction => (pc = "physical_send" /\ ~RxStep /\ ~TimeoutStep)
       /\ (pc = "physical_send" /\ pc' = "main") => direction' = "Receive"]_vars

C25_Witness ==
    /\ direction = "Transmit" /\ pc = "physical_send"
    /\ last.op = "timeout"
    /\ line # <<>>

\* The i-th call of the log is a recv that returned a message other than the
\* one of the send logged just before it: that send ran after the recv had
\* taken its clone and before it cleared the queue.
Raced(i) ==
    /\ IsRecv(i) /\ i > 1
    /\ q_log[i - 1].op = "send"
    /\ q_log[i].msg # <<>>
    /\ q_log[i].msg # q_log[i - 1].msg

\* C24: when Tx::send(m) runs between the read and the clear of an Rx::recv that
\* read Some(old), the recv returns old, the queue is empty after it and the
\* next recv returns None: m is lost.
C24_SendLostInRecv ==
    \A i \in DOMAIN q_log :
        Raced(i) =>
            /\ \E j \in 1..(i - 2) : q_log[j].op = "send" /\ q_log[j].msg = q_log[i].msg
            /\ (i = Len(q_log)) => MSG = <<>>
            /\ IsRecv(i + 1) => q_log[i + 1].msg = <<>>

C24_Witness ==
    /\ Len(q_log) = 4 /\ rx.pc = "idle"
    /\ q_log[1].op = "send" /\ q_log[2].op = "send"
    /\ Raced(3) /\ q_log[3].msg = q_log[1].msg
    /\ IsRecv(4) /\ q_log[4].msg = <<>>
    /\ MSG = <<>>

\* C23: a reception callback that calls Core::send never leaves the wait loop:
\* the lock stays set, the reception interrupt does not return, no further byte
\* is processed and the main context does not run again.
C23_CallbackSendDeadlock ==
    [][isr = "wait_unlock" =>
          /\ isr' = "wait_unlock"
          /\ TX_LOCK'
          /\ pc' = pc
          /\ recv_buf' = recv_buf
          /\ last' = last]_vars

C23_Witness ==
    /\ isr = "wait_unlock" /\ TX_LOCK
    /\ cen /\ cnt = TimerPeriod
    /\ line # <<>>
    /\ pc = "physical_send"

====
